---- MODULE Spec2Model ----
(***************************************************************************)
(* A model of the opie toolkit's device discovery and archive pipeline:    *)
(* helpers/u.py, helpers/mount.py, helpers/op1.py, helpers/backups.py and   *)
(* commands/verify.py and commands/restore.py.                              *)
(*                                                                         *)
(* Python strings are modelled as sequences of one-character strings, so   *)
(* that x[0], str.split, str.startswith and str.replace are computed the   *)
(* way Python computes them.                                                *)
(***************************************************************************)
EXTENDS Integers, Sequences, FiniteSets, TLC

VARIABLES
    platform,       \* platform.system(): "Posix" or "Windows"
    fs,             \* the mounted volumes: mount path -> [access, tree]
    probe,          \* the path handed to is_op1_drive
    fp_result,      \* what is_op1_drive returned for probe
    mount_proc,     \* what run(["mount"]) returns: [returncode, stdout]
    drive_types,    \* Windows: drive letter -> GetDriveType result
    found,          \* what find_op1_mount returned
    lpc,            \* position of the locate operation
    wait,           \* get_mount_or_die_trying / wait_for_op1_mount in progress
    archive,        \* the archive file on disk: [state, members]
    verify_result,  \* what verify_backup_structure returned
    members,        \* restore_archive: tar.getmembers()
    ridx,           \* restore_archive: members extracted so far
    progress,       \* restore_archive: values passed to progress_callback
    rpc,            \* position of restore_archive
    pbar,           \* generate_archive: [total, n] of the progress bar
    cmd             \* the restore command: its position and what it has done

vars == <<platform, fs, probe, fp_result, mount_proc, drive_types, found, lpc,
          wait, archive, verify_result, members, ridx, progress, rpc, pbar,
          cmd>>

locateVars == <<mount_proc, drive_types, found, lpc, wait>>
probeVars == <<probe, fp_result>>
archiveVars == <<archive, verify_result, members, ridx, progress, rpc, pbar>>

None == "None"

(***************************************************************************)
(* Text                                                                    *)
(***************************************************************************)
tape == <<"t", "a", "p", "e">>
album == <<"a", "l", "b", "u", "m">>
synth == <<"s", "y", "n", "t", "h">>
drum == <<"d", "r", "u", "m">>

\* op1.py: OP1_BASE_DIRS = set(['tape', 'album', 'synth', 'drum'])
OP1_BASE_DIRS == {tape, album, synth, drum}

str_startswith(s, prefix) ==
    /\ Len(prefix) <= Len(s)
    /\ SubSeq(s, 1, Len(prefix)) = prefix

\* the slice s[i-1:j] of Python: indices beyond the end are clamped
Slice(s, i, j) ==
    LET hi == IF j > Len(s) THEN Len(s) ELSE j
    IN  IF i > hi THEN <<>> ELSE SubSeq(s, i, hi)

str_replace(s, a, b) == [i \in 1..Len(s) |-> IF s[i] = a THEN b ELSE s[i]]

RECURSIVE SplitFrom(_, _, _, _)
SplitFrom(s, c, i, cur) ==
    IF i > Len(s) THEN <<cur>>
    ELSE IF s[i] = c THEN <<cur>> \o SplitFrom(s, c, i + 1, <<>>)
    ELSE SplitFrom(s, c, i + 1, Append(cur, s[i]))

\* s.split(c) for a one-character separator c
str_split(s, c) == SplitFrom(s, c, 1, <<>>)

RECURSIVE str_join(_, _)
str_join(sep, parts) ==
    IF parts = <<>> THEN <<>>
    ELSE IF Len(parts) = 1 THEN parts[1]
    ELSE parts[1] \o <<sep>> \o str_join(sep, Tail(parts))

\* s.lstrip(c)
RECURSIVE str_lstrip(_, _)
str_lstrip(s, c) ==
    IF s # <<>> /\ s[1] = c THEN str_lstrip(Tail(s), c) ELSE s

RECURSIVE SetToSeq(_)
SetToSeq(S) ==
    IF S = {} THEN <<>>
    ELSE LET x == CHOOSE y \in S : TRUE IN <<x>> \o SetToSeq(S \ {x})

RECURSIVE Flatten(_)
Flatten(ss) == IF ss = <<>> THEN <<>> ELSE Head(ss) \o Flatten(Tail(ss))

Range(s) == {s[i] : i \in 1..Len(s)}

(***************************************************************************)
(* os.path, for the platform the program runs on                           *)
(***************************************************************************)
os_sep == IF platform = "Windows" THEN "\\" ELSE "/"

dot == <<".">>
dotdot == <<".", ".">>

\* the loop of posixpath.normpath / ntpath.normpath over the components
RECURSIVE NormFold(_, _, _)
NormFold(comps, acc, absolute) ==
    IF comps = <<>> THEN acc
    ELSE LET c == Head(comps)
             rest == Tail(comps)
         IN  IF c = <<>> \/ c = dot THEN NormFold(rest, acc, absolute)
             ELSE IF c = dotdot
                  THEN IF acc # <<>> /\ acc[Len(acc)] # dotdot
                       THEN NormFold(rest, SubSeq(acc, 1, Len(acc) - 1), absolute)
                       ELSE IF absolute THEN NormFold(rest, acc, absolute)
                       ELSE NormFold(rest, Append(acc, c), absolute)
                  ELSE NormFold(rest, Append(acc, c), absolute)

\* normpath answers "." for an empty result
OrDot(out) == IF out = <<>> THEN dot ELSE out

PosixNormalised(p, absolute) ==
    OrDot((IF absolute THEN <<"/">> ELSE <<>>)
          \o str_join("/", NormFold(str_split(p, "/"), <<>>, absolute)))

posix_normpath(p) == PosixNormalised(p, p # <<>> /\ p[1] = "/")

\* ntpath.splitdrive for drive-letter paths
nt_splitdrive(p) ==
    IF Len(p) >= 2 /\ p[2] = ":"
    THEN <<SubSeq(p, 1, 2), SubSeq(p, 3, Len(p))>>
    ELSE <<<<>>, p>>

NtNormalised(drive, rest, absolute) ==
    OrDot(drive \o (IF absolute THEN <<"\\">> ELSE <<>>)
          \o str_join("\\", NormFold(str_split(rest, "\\"), <<>>, absolute)))

NtNormalisedSplit(dr) ==
    NtNormalised(dr[1], dr[2], dr[2] # <<>> /\ dr[2][1] = "\\")

nt_normpath(p) == NtNormalisedSplit(nt_splitdrive(str_replace(p, "/", "\\")))

os_path_normpath(p) ==
    IF platform = "Windows" THEN nt_normpath(p) ELSE posix_normpath(p)

posix_join(a, b) ==
    IF b # <<>> /\ b[1] = "/" THEN b
    ELSE IF a = <<>> \/ a[Len(a)] = "/" THEN a \o b
    ELSE a \o <<"/">> \o b

nt_join(a, b) ==
    IF nt_splitdrive(b)[1] # <<>> \/ (b # <<>> /\ b[1] \in {"\\", "/"}) THEN b
    ELSE IF a = <<>> \/ a[Len(a)] \in {"\\", "/", ":"} THEN a \o b
    ELSE a \o <<"\\">> \o b

os_path_join(a, b) ==
    IF platform = "Windows" THEN nt_join(a, b) ELSE posix_join(a, b)

\* the components of an absolute path: the drive (Windows) and the names
NonEmpty(c) == c # <<>>

NtComps(dr) == <<dr[1]>> \o SelectSeq(str_split(dr[2], "\\"), NonEmpty)

AbsCompsOn(pf, p) ==
    IF pf = "Windows" THEN NtComps(nt_splitdrive(nt_normpath(p)))
    ELSE SelectSeq(str_split(posix_normpath(p), "/"), NonEmpty)

AbsComps(p) == AbsCompsOn(platform, p)

RECURSIVE CommonLen(_, _)
CommonLen(a, b) ==
    IF a = <<>> \/ b = <<>> \/ Head(a) # Head(b) THEN 0
    ELSE 1 + CommonLen(Tail(a), Tail(b))

\* os.path.relpath(path, start) for absolute path and start
RelFrom(pl, sl, i) ==
    [k \in 1..(Len(sl) - i) |-> dotdot] \o SubSeq(pl, i + 1, Len(pl))

RelComps(pl, sl) == RelFrom(pl, sl, CommonLen(sl, pl))

RelText(rel) == IF rel = <<>> THEN dot ELSE str_join(os_sep, rel)

os_path_relpath(path, start) == RelText(RelComps(AbsComps(path), AbsComps(start)))

(***************************************************************************)
(* The file system: mounted volumes and the os calls the program makes     *)
(***************************************************************************)
Dir(path) == [path |-> path, kind |-> "dir", data |-> <<>>]
File(path, data) == [path |-> path, kind |-> "file", data |-> data]

Ok(v) == [exc |-> "none", val |-> v]
Raise(e) == [exc |-> e, val |-> None]

IsPrefix(a, b) == Len(a) <= Len(b) /\ SubSeq(b, 1, Len(a)) = a

\* the volume a path lies on and the path's names below the mount point
Platforms == {"Posix", "Windows"}

\* where the device is mounted: /V/OP, or drive E:\ on Windows
DeviceMount(pf) ==
    IF pf = "Windows" THEN <<"E", ":", "\\">> ELSE <<"/", "V", "/", "O", "P">>

\* a second removable volume: /V/U2, or drive F:\ on Windows
OtherMount(pf) ==
    IF pf = "Windows" THEN <<"F", ":", "\\">> ELSE <<"/", "V", "/", "U", "2">>

\* the volume holding the rest of the file system
HostMount(pf) == IF pf = "Windows" THEN <<"C", ":", "\\">> ELSE <<"/">>

\* the components of the mount points, computed once
MountComps ==
    [pf \in Platforms |->
        [m \in {DeviceMount(pf), OtherMount(pf), HostMount(pf)} |-> AbsCompsOn(pf, m)]]

Deepest(on, mcomps) ==
    CHOOSE m \in on : \A o \in on : Len(mcomps[o]) <= Len(mcomps[m])

LocateOn(comps, mcomps, on) ==
    IF on = {} THEN [ok |-> FALSE, mount |-> <<>>, rel |-> <<>>]
    ELSE [ok |-> TRUE, mount |-> Deepest(on, mcomps),
          rel |-> SubSeq(comps, Len(mcomps[Deepest(on, mcomps)]) + 1, Len(comps))]

LocateIn(comps, mcomps) ==
    LocateOn(comps, mcomps, {m \in DOMAIN fs : IsPrefix(mcomps[m], comps)})

Locate(p) == LocateIn(AbsComps(p), MountComps[platform])

\* os.stat at a located path: "dir", "file", or the error it raises
StatAt(at) ==
    IF ~at.ok THEN "FileNotFoundError"
    ELSE IF at.rel = <<>> THEN "dir"
    ELSE IF fs[at.mount].access = "denied" THEN "PermissionError"
    ELSE IF fs[at.mount].access = "ioerror" THEN "OSError"
    ELSE IF \E e \in fs[at.mount].tree : e.path = at.rel
         THEN (CHOOSE e \in fs[at.mount].tree : e.path = at.rel).kind
         ELSE "FileNotFoundError"

Stat(p) == StatAt(Locate(p))

IsKind(kind) == kind \in {"dir", "file"}

\* os.path.exists and os.path.isdir answer False when stat raises
os_path_exists(p) == IsKind(Stat(p))
os_path_isdir(p) == Stat(p) = "dir"

ChildNames(tree, rel) ==
    {e.path[Len(e.path)] : e \in {f \in tree : Len(f.path) = Len(rel) + 1
                                              /\ IsPrefix(rel, f.path)}}

\* os.listdir at a located path of the given kind
ListAt(at, kind) ==
    IF ~at.ok THEN Raise("FileNotFoundError")
    ELSE IF fs[at.mount].access = "denied" THEN Raise("PermissionError")
    ELSE IF fs[at.mount].access = "ioerror" THEN Raise("OSError")
    ELSE IF kind = "file" THEN Raise("NotADirectoryError")
    ELSE IF kind # "dir" THEN Raise("FileNotFoundError")
    ELSE Ok(ChildNames(fs[at.mount].tree, at.rel))

ListLocated(at) == ListAt(at, StatAt(at))

\* os.listdir(p): the names in p, or the error it raises
os_listdir(p) == ListLocated(Locate(p))

(***************************************************************************)
(* helpers/u.py                                                            *)
(***************************************************************************)
VisibleOf(ls) ==
    IF ls.exc # "none" THEN ls ELSE Ok({x \in ls.val : x[1] # "."})

\* list(filter(lambda x: x[0] != '.', os.listdir(d)))
get_visible_children(d) == VisibleOf(os_listdir(d))

\* get_visible_folders without the os.path.isdir filter
get_visible_folders_any_kind(d) == get_visible_children(d)

FoldersOf(d, vc) ==
    IF vc.exc # "none" THEN vc
    ELSE Ok({x \in vc.val : os_path_isdir(os_path_join(d, x))})

\* list(filter(lambda x: os.path.isdir(os.path.join(d, x)), get_visible_children(d)))
get_visible_folders(d) == FoldersOf(d, get_visible_children(d))

(***************************************************************************)
(* helpers/op1.py: the device fingerprint                                  *)
(***************************************************************************)
\* the try block's outcome for the folders found
FingerprintOf(subdirs) ==
    IF subdirs.exc = "none" THEN Ok(OP1_BASE_DIRS \subseteq subdirs.val)
    ELSE IF subdirs.exc \in {"PermissionError", "FileNotFoundError"} THEN Ok(FALSE)
    ELSE Ok(FALSE)

is_op1_drive(path) == FingerprintOf(get_visible_folders(os_path_normpath(path)))

\* a validation that accepts every mount point
is_valid_mount_any(mount_point) == TRUE

ValidNormalised(mp) == os_path_exists(mp) /\ is_op1_drive(mp).val

\* return os.path.exists(mount_point) and is_op1_drive(mount_point)
is_valid_mount(mount_point) == ValidNormalised(os_path_normpath(mount_point))

(***************************************************************************)
(* The inputs of the fingerprint check: one volume at the probed path      *)
(***************************************************************************)
xdir == <<"x">>
yfile == <<"y">>
hidden_drum == <<".", "d", "r", "u", "m">>
data_a == <<"a">>
data_b == <<"b">>

\* the same path as a caller may spell it
ProbeSpellings(pf) ==
    IF pf = "Windows" THEN {<<"E", ":", "\\">>, <<"E", ":", "/">>}
    ELSE {<<"/", "V", "/", "O", "P">>, <<"/", "V", "/", "O", "P", "/">>}

\* entries beside the required names: a directory, a file, a hidden
\* directory carrying a required name, a required name one level down
ExtraEntries ==
    {Dir(<<xdir>>), File(<<yfile>>, data_a), Dir(<<hidden_drum>>),
     Dir(<<xdir, drum>>)}

PrefixClosed(tree) ==
    \A e \in tree : Len(e.path) > 1 =>
        \E d \in tree : d.kind = "dir" /\ d.path = SubSeq(e.path, 1, Len(e.path) - 1)

TopLevel(kinds) ==
    {Dir(<<n>>) : n \in {m \in OP1_BASE_DIRS : kinds[m] = "dir"}}
    \cup {File(<<n>>, data_b) : n \in {m \in OP1_BASE_DIRS : kinds[m] = "file"}}

ProbeTrees ==
    {t \in {TopLevel(kinds) \cup extra :
                kinds \in [OP1_BASE_DIRS -> {"absent", "dir", "file"}],
                extra \in SUBSET ExtraEntries} : PrefixClosed(t)}

Unset == [exc |-> "unset", val |-> FALSE]
NoVolumes == [m \in {} |-> [access |-> "ok", tree |-> {}]]
Volume(access, tree) == [access |-> access, tree |-> tree]

\* no verification has run; examined is the archive state a verification saw
NotVerified ==
    [examined |-> "nothing", raised |-> FALSE, valid |-> FALSE,
     issues |-> <<[kind |-> "not run", dirs |-> {}]>>]

\* the restore command is not running
NoCommand ==
    [pc |-> "idle", verified |-> "no", proceed |-> "unasked",
     mount |-> [some |-> FALSE, path |-> <<>>], overwrite |-> "unasked",
     status |-> "none"]

\* no wait for the device is running
NotWaiting ==
    [entry |-> "none", pc |-> "idle", timeout |-> 0, n |-> 0, finds |-> 0,
     sleeps |-> 0, usb |-> FALSE, result |-> [some |-> FALSE, path |-> <<>>],
     status |-> "none", message |-> "none"]

IdleLocate ==
    /\ mount_proc = [returncode |-> 0, stdout |-> [isnone |-> FALSE, lines |-> <<>>]]
    /\ drive_types = <<>>
    /\ found = [exc |-> "none", val |-> [some |-> FALSE, path |-> <<>>]]
    /\ lpc = "idle"
    /\ wait = NotWaiting

IdleArchive ==
    /\ archive = [state |-> "absent", members |-> <<>>]
    /\ verify_result = NotVerified
    /\ members = <<>>
    /\ ridx = 0
    /\ progress = <<>>
    /\ rpc = "idle"
    /\ pbar = [total |-> 0, n |-> 0]

InitFingerprint ==
    /\ platform \in Platforms
    /\ cmd = NoCommand
    /\ \/ fs = NoVolumes
       \/ \E a \in {"ok", "denied", "ioerror"}, t \in ProbeTrees :
              fs = [m \in {DeviceMount(platform)} |-> Volume(a, t)]
    /\ probe \in ProbeSpellings(platform)
    /\ fp_result = Unset
    /\ IdleLocate
    /\ IdleArchive

\* a caller applies is_op1_drive to the probed path
IsOp1Drive ==
    /\ fp_result = Unset
    /\ fp_result' = is_op1_drive(probe)
    /\ UNCHANGED <<platform, cmd, fs, probe, locateVars, archiveVars>>

NextFingerprint == IsOp1Drive

SpecFingerprint == InitFingerprint /\ [][NextFingerprint]_vars

(***************************************************************************)
(* C1: is_op1_drive is the subset test on the visible subdirectories       *)
(***************************************************************************)
HasDevice == DOMAIN fs # {}
ProbedVolume == fs[DeviceMount(platform)]

\* every required name is a visible immediate subdirectory of the volume
AllRequiredSubdirs ==
    /\ HasDevice
    /\ \A n \in OP1_BASE_DIRS : n[1] # "." /\ Dir(<<n>>) \in ProbedVolume.tree

\* C1 as stated: for every path V, is_op1_drive(V) is true iff each of the 4
\* required names is a visible immediate subdirectory of V.
C1_FingerprintIffPresent ==
    fp_result.exc # "unset" =>
        /\ fp_result.exc = "none"
        /\ fp_result.val <=> AllRequiredSubdirs

\* C1 amended: is_op1_drive(V) is true iff V can be listed and each of the 4
\* required names is a visible immediate subdirectory of V; a volume whose
\* listing fails yields false, whatever it holds.  Extra entries, a required
\* name that is a regular file, and a hidden directory do not change this.
C1_FingerprintIffListedAndPresent ==
    fp_result.exc # "unset" =>
        /\ fp_result.exc = "none"
        /\ fp_result.val <=> (AllRequiredSubdirs /\ ProbedVolume.access = "ok")

\* is_op1_drive accepted a volume that holds extra entries beside the 4 names
C1_Witness ==
    /\ fp_result.exc = "none"
    /\ fp_result.val
    /\ ExtraEntries \subseteq ProbedVolume.tree

(***************************************************************************)
(* helpers/mount.py                                                        *)
(***************************************************************************)
WordChars ==
    {"a", "b", "c", "d", "e", "f", "g", "h", "i", "j", "k", "l", "m", "n", "o",
     "p", "q", "r", "s", "t", "u", "v", "w", "x", "y", "z", "A", "B", "C", "D",
     "E", "F", "G", "H", "I", "J", "K", "L", "M", "N", "O", "P", "Q", "R", "S",
     "T", "U", "V", "W", "X", "Y", "Z", "0", "1", "2", "3", "4", "5", "6", "7",
     "8", "9", "_"}

SpaceChars == {" ", "\t", "\r"}

\* line[i..] matches  \(.*\)\s*$
MatchParens(line, i) ==
    /\ i <= Len(line)
    /\ line[i] = "("
    /\ \E c \in (i + 1)..Len(line) :
           /\ line[c] = ")"
           /\ \A k \in (c + 1)..Len(line) : line[k] \in SpaceChars

\* line[i..] matches  (type .*)?\(.*\)\s*$
MatchTail(line, i) ==
    \/ MatchParens(line, i)
    \/ /\ Slice(line, i, i + 4) = <<"t", "y", "p", "e", " ">>
       /\ \E o \in (i + 5)..Len(line) : MatchParens(line, o)

\* re.match(r"^\s*(?P<device>/dev/\w+) on (?P<mount>[^\0]+) (type .*)?\(.*\)\s*$", line)
get_mount_from_line(line) ==
    LET nonspace == {i \in 1..Len(line) : line[i] \notin SpaceChars}
        d0 == IF nonspace = {} THEN Len(line) + 1
              ELSE CHOOSE i \in nonspace : \A j \in nonspace : i <= j
        w0 == d0 + 5
        nonword == {i \in w0..Len(line) : line[i] \notin WordChars}
        w1 == IF nonword = {} THEN Len(line) + 1
              ELSE CHOOSE i \in nonword : \A j \in nonword : i <= j
        m0 == w1 + 4
        \* the greedy [^\0]+ ends at the last place the rest still matches
        ends == {e \in m0..Len(line) :
                    /\ e + 1 <= Len(line)
                    /\ line[e + 1] = " "
                    /\ MatchTail(line, e + 2)}
        m1 == CHOOSE e \in ends : \A f \in ends : f <= e
    IN  IF /\ Slice(line, d0, d0 + 4) = <<"/", "d", "e", "v", "/">>
           /\ w1 > w0
           /\ Slice(line, w1, w1 + 3) = <<" ", "o", "n", " ">>
           /\ ends # {}
        THEN [matched |-> TRUE, device |-> SubSeq(line, d0, w1 - 1),
              mount |-> SubSeq(line, m0, m1)]
        ELSE [matched |-> FALSE, device |-> <<>>, mount |-> <<>>]

LowerLetters ==
    <<"a", "b", "c", "d", "e", "f", "g", "h", "i", "j", "k", "l", "m",
      "n", "o", "p", "q", "r", "s", "t", "u", "v", "w", "x", "y", "z">>

UpperLetters ==
    <<"A", "B", "C", "D", "E", "F", "G", "H", "I", "J", "K", "L", "M",
      "N", "O", "P", "Q", "R", "S", "T", "U", "V", "W", "X", "Y", "Z">>

str_upper(s) ==
    [i \in 1..Len(s) |->
        IF \E k \in 1..26 : LowerLetters[k] = s[i]
        THEN UpperLetters[CHOOSE k \in 1..26 : LowerLetters[k] = s[i]]
        ELSE s[i]]

\* os.environ.get('SystemDrive', 'C:')
SystemDrive == <<"C", ":">>

BAD_PREFIX ==
    <<<<"/", "d", "e", "v">>, <<"/", "s", "y", "s">>, <<"/", "n", "e", "t">>,
      <<"/", "p", "r", "o", "c">>, <<"/", "r", "u", "n">>,
      <<"/", "b", "o", "o", "t">>>>

is_poopy_mount(mount) ==
    IF platform = "Windows"
    THEN str_startswith(str_upper(mount), str_upper(SystemDrive))
    ELSE \/ mount \in {<<"/">>, <<"/", "h", "o", "m", "e">>}
         \/ \E k \in 1..Len(BAD_PREFIX) : str_startswith(mount, BAD_PREFIX[k])

\* the drives whose bit is set in GetLogicalDrives()
get_windows_drives ==
    LET present == SelectSeq(UpperLetters,
                             LAMBDA l : drive_types[l] # "DRIVE_NO_ROOT_DIR")
    IN  [i \in 1..Len(present) |-> <<present[i], ":", "\\">>]

\* the list of (device, mount point), or None when the mount query failed
get_potential_mounts ==
    IF platform = "Windows"
    THEN LET drives == SelectSeq(get_windows_drives, LAMBDA d : ~is_poopy_mount(d))
         IN  [isnone |-> FALSE, list |-> [i \in 1..Len(drives) |-> <<drives[i], drives[i]>>]]
    ELSE IF mount_proc.returncode # 0 THEN [isnone |-> TRUE, list |-> <<>>]
    ELSE IF mount_proc.stdout.isnone THEN [isnone |-> TRUE, list |-> <<>>]
    ELSE LET lines == mount_proc.stdout.lines
             mounts == [i \in 1..Len(lines) |-> get_mount_from_line(lines[i])]
             filtered == SelectSeq(mounts,
                                   LAMBDA x : x.matched /\ ~is_poopy_mount(x.mount))
         IN  [isnone |-> FALSE,
              list |-> [i \in 1..Len(filtered) |->
                            <<filtered[i].device, filtered[i].mount>>]]

(***************************************************************************)
(* helpers/op1.py: locating the device                                     *)
(***************************************************************************)
SomePath(p) == [some |-> TRUE, path |-> p]
NoPath == [some |-> FALSE, path |-> <<>>]

\* the drives win32file.GetDriveType reports as removable, A to Z;
\* a drive whose query raises is skipped
get_removable_drives ==
    IF platform # "Windows" THEN <<>>
    ELSE LET removable == SelectSeq(UpperLetters,
                                    LAMBDA l : drive_types[l] = "DRIVE_REMOVABLE")
         IN  [i \in 1..Len(removable) |-> <<removable[i], ":", "\\">>]

\* for drive in get_removable_drives(): if is_op1_drive(drive): return drive
RECURSIVE FirstOp1Drive(_)
FirstOp1Drive(drives) ==
    IF drives = <<>> THEN Ok(NoPath)
    ELSE LET r == is_op1_drive(Head(drives))
         IN  IF r.exc # "none" THEN Raise(r.exc)
             ELSE IF r.val THEN Ok(SomePath(Head(drives)))
             ELSE FirstOp1Drive(Tail(drives))

\* the loop giving up at the first volume that does not match
FirstOp1Mount_first_only(mounts) ==
    IF mounts = <<>> THEN Ok(NoPath)
    ELSE LET r == is_op1_drive(Head(mounts)[2])
         IN  IF r.exc = "none" /\ r.val THEN Ok(SomePath(Head(mounts)[2]))
             ELSE Ok(NoPath)

\* for device, mount_point in mounts: try: if is_op1_drive(mount_point):
\* return mount_point; except (PermissionError, FileNotFoundError): continue
RECURSIVE FirstOp1Mount(_)
FirstOp1Mount(mounts) ==
    IF mounts = <<>> THEN Ok(NoPath)
    ELSE LET r == is_op1_drive(Head(mounts)[2])
         IN  IF r.exc \in {"PermissionError", "FileNotFoundError"}
             THEN FirstOp1Mount(Tail(mounts))
             ELSE IF r.exc # "none" THEN Raise(r.exc)
             ELSE IF r.val THEN Ok(SomePath(Head(mounts)[2]))
             ELSE FirstOp1Mount(Tail(mounts))

find_op1_mount ==
    IF platform = "Windows" THEN FirstOp1Drive(get_removable_drives)
    ELSE LET mounts == get_potential_mounts
         IN  IF ~mounts.isnone /\ mounts.list # <<>>
             THEN FirstOp1Mount(mounts.list)
             ELSE Ok(NoPath)

(***************************************************************************)
(* The inputs of device discovery: the mount table and the volumes         *)
(***************************************************************************)
line_op1 ==
    <<"/", "d", "e", "v", "/", "d", "1", " ", "o", "n", " ", "/", "V", "/", "O",
      "P", " ", "(", "m", "s", "d", "o", "s", ",", " ", "l", "o", "c", "a", "l", ")">>
line_usb ==
    <<"/", "d", "e", "v", "/", "d", "2", " ", "o", "n", " ", "/", "V", "/", "U",
      "2", " ", "(", "m", "s", "d", "o", "s", ")">>
line_root ==
    <<"/", "d", "e", "v", "/", "d", "0", " ", "o", "n", " ", "/", " ", "(", "a",
      "p", "f", "s", ")">>
line_linux ==
    <<"/", "d", "e", "v", "/", "s", "1", " ", "o", "n", " ", "/", "V", "/", "O",
      "P", " ", "t", "y", "p", "e", " ", "v", "f", "a", "t", " ", "(", "r", "w", ")">>
line_devfs ==
    <<"d", "e", "v", "f", "s", " ", "o", "n", " ", "/", "d", "e", "v", " ", "(",
      "d", "e", "v", "f", "s", ")">>
line_linux_root ==
    <<"/", "d", "e", "v", "/", "s", "0", " ", "o", "n", " ", "/", " ", "t", "y",
      "p", "e", " ", "e", "x", "t", "4", " ", "(", "r", "w", ")">>

MountLines ==
    {line_op1, line_usb, line_root, line_linux, line_linux_root, line_devfs}

\* the longest mount table
MaxLines == 3

MountTables == UNION {[1..n -> MountLines] : n \in 0..MaxLines}

Op1Tree == {Dir(<<n>>) : n \in OP1_BASE_DIRS}
StickTree == {Dir(<<tape>>), Dir(<<xdir>>), File(<<yfile>>, data_a)}

\* what may be mounted at a mount point; "absent" is nothing mounted there
MountedVolumes ==
    {Volume("ok", Op1Tree), Volume("denied", Op1Tree), Volume("ok", StickTree),
     Volume("absent", {})}

Mounted(pf, v1, v2) ==
    LET at == {m \in {DeviceMount(pf), OtherMount(pf)} :
                  (IF m = DeviceMount(pf) THEN v1 ELSE v2).access # "absent"}
    IN  [m \in at |-> IF m = DeviceMount(pf) THEN v1 ELSE v2]

NoDrives == [l \in Range(UpperLetters) |-> "DRIVE_NO_ROOT_DIR"]

DriveStates == {"DRIVE_REMOVABLE", "DRIVE_FIXED", "DRIVE_NO_ROOT_DIR", "raises"}

InitLocate ==
    /\ platform \in Platforms
    /\ cmd = NoCommand
    /\ \E v1 \in MountedVolumes, v2 \in MountedVolumes :
           fs = Mounted(platform, v1, v2)
    /\ IF platform = "Windows"
       THEN /\ mount_proc = [returncode |-> 0,
                             stdout |-> [isnone |-> FALSE, lines |-> <<>>]]
            /\ \E e \in DriveStates, f \in DriveStates :
                   drive_types = [NoDrives EXCEPT !["C"] = "DRIVE_FIXED",
                                                  !["E"] = e, !["F"] = f]
       ELSE /\ drive_types = NoDrives
            /\ \/ \E t \in MountTables :
                      mount_proc = [returncode |-> 0,
                                    stdout |-> [isnone |-> FALSE, lines |-> t]]
               \/ mount_proc = [returncode |-> 1,
                                stdout |-> [isnone |-> FALSE, lines |-> <<>>]]
               \/ mount_proc = [returncode |-> 0,
                                stdout |-> [isnone |-> TRUE, lines |-> <<>>]]
    /\ found = Ok(NoPath)
    /\ lpc = "idle"
    /\ wait = NotWaiting
    /\ probe = <<>>
    /\ fp_result = Unset
    /\ IdleArchive

\* a caller runs find_op1_mount()
FindOp1Mount ==
    /\ lpc = "idle"
    /\ found' = find_op1_mount
    /\ lpc' = "found"
    /\ UNCHANGED <<platform, cmd, fs, probeVars, mount_proc, drive_types, wait, archiveVars>>

NextLocate == FindOp1Mount

SpecLocate == InitLocate /\ [][NextLocate]_vars

(***************************************************************************)
(* C2: find_op1_mount returns the first matching volume, or None           *)
(***************************************************************************)
\* the mount points find_op1_mount inspects, in the order it inspects them
EnumeratedMounts ==
    IF platform = "Windows" THEN get_removable_drives
    ELSE LET mounts == get_potential_mounts.list
         IN  [i \in 1..Len(mounts) |-> mounts[i][2]]

FingerprintHits ==
    {i \in 1..Len(EnumeratedMounts) : is_op1_drive(EnumeratedMounts[i]).val}

\* C2: find_op1_mount returns the first volume, in enumeration order, that
\* satisfies the fingerprint test, returns None when no enumerated volume
\* matches (also when the mount query fails), and never raises; a volume
\* that cannot be read counts as a non-match and later ones are still tested.
C2_FirstMatchOrNone ==
    lpc = "found" =>
        /\ found.exc = "none"
        /\ IF FingerprintHits = {} THEN found.val = NoPath
           ELSE \E i \in FingerprintHits :
                    /\ \A j \in FingerprintHits : i <= j
                    /\ found.val = SomePath(EnumeratedMounts[i])

\* a device was found behind an earlier volume that could not be read
C2_Witness ==
    /\ lpc = "found"
    /\ found.val.some
    /\ \E i \in FingerprintHits, j \in 1..Len(EnumeratedMounts) :
           /\ j < i
           /\ Locate(EnumeratedMounts[j]).ok
           /\ fs[Locate(EnumeratedMounts[j]).mount].access = "denied"

(***************************************************************************)
(* C17: what get_mount_from_line makes of a line of the mount table        *)
(***************************************************************************)
\* the first place at or after from where pat stands in s, or 0
FirstAt(s, pat, from) ==
    LET at == {i \in from..Len(s) : Slice(s, i, i + Len(pat) - 1) = pat}
    IN  IF at = {} THEN 0 ELSE CHOOSE i \in at : \A j \in at : i <= j

\* where the mount path that starts at m0 ends: before the first " type " or
\* " (" that follows
MountEnd(line, m0) ==
    LET ty == FirstAt(line, <<" ", "t", "y", "p", "e", " ">>, m0)
        pa == FirstAt(line, <<" ", "(">>, m0)
    IN  IF ty > 0 /\ ty < pa THEN ty - 1 ELSE pa - 1

\* the line reads '<device> on <mountPath> (<metadata>)' or
\* '<device> on <mountPath> type <fstype> (<metadata>)', the device under /dev/
HasMountForm(line) ==
    /\ str_startswith(line, <<"/", "d", "e", "v", "/">>)
    /\ FirstAt(line, <<" ", "o", "n", " ">>, 1) > 0
    /\ FirstAt(line, <<" ", "(">>, FirstAt(line, <<" ", "o", "n", " ">>, 1) + 4) > 0
    /\ line[Len(line)] = ")"

\* the (device, mountPath) such a line stands for
StatedParse(line) ==
    LET on == FirstAt(line, <<" ", "o", "n", " ">>, 1)
    IN  [matched |-> TRUE, device |-> SubSeq(line, 1, on - 1),
         mount |-> SubSeq(line, on + 4, MountEnd(line, on + 4))]

\* C17: get_mount_from_line maps every line '<device> on <mountPath>
\* (<metadata>)' or '<device> on <mountPath> type <fstype> (<metadata>)' to
\* the device and the mount path, which ends before the ' (' or ' type'
\* marker, and maps every other line to no volume
C17_ParsesMountLine ==
    lpc = "found" =>
        \A i \in 1..Len(mount_proc.stdout.lines) :
            IF HasMountForm(mount_proc.stdout.lines[i])
            THEN get_mount_from_line(mount_proc.stdout.lines[i])
                     = StatedParse(mount_proc.stdout.lines[i])
            ELSE ~get_mount_from_line(mount_proc.stdout.lines[i]).matched

(***************************************************************************)
(* C18: the volumes get_potential_mounts leaves out                        *)
(***************************************************************************)
\* the mount path is the root, /home, or one of BAD_PREFIX or a path under it
IsSystemPath(mount) ==
    \/ mount \in {<<"/">>, <<"/", "h", "o", "m", "e">>}
    \/ \E k \in 1..Len(BAD_PREFIX) :
           \/ mount = BAD_PREFIX[k]
           \/ str_startswith(mount, BAD_PREFIX[k] \o <<"/">>)

ReturnedDevices ==
    {get_potential_mounts.list[i][1] : i \in 1..Len(get_potential_mounts.list)}

\* C18: get_potential_mounts returns no volume mounted on the root, on /home
\* or under /dev, /sys, /net, /proc, /run or /boot, and returns every other
\* volume of the mount table; where drives have letters it returns every
\* drive but the system drive
C18_SystemMountsLeftOut ==
    (lpc = "found" /\ ~get_potential_mounts.isnone) =>
        IF platform = "Windows"
        THEN \A l \in Range(UpperLetters) :
                 drive_types[l] # "DRIVE_NO_ROOT_DIR" =>
                     (<<l, ":", "\\">> \in ReturnedDevices <=> l # SystemDrive[1])
        ELSE \A i \in 1..Len(mount_proc.stdout.lines) :
                 HasMountForm(mount_proc.stdout.lines[i]) =>
                     (StatedParse(mount_proc.stdout.lines[i]).device \in ReturnedDevices
                          <=> ~IsSystemPath(StatedParse(mount_proc.stdout.lines[i]).mount))

(***************************************************************************)
(* helpers/op1.py: waiting for the device                                  *)
(***************************************************************************)
\* wait_for_op1_mount(timeout=15)
DefaultTimeout == 15

\* is_connected(): on Windows a removable drive with the device's folders,
\* elsewhere the USB device usb.core.find reports
is_connected ==
    IF platform = "Windows" THEN FirstOp1Drive(get_removable_drives).val.some
    ELSE wait.usb

\* a loop that makes one turn more than range(timeout)
PollsLeft_one_more(n, timeout) == n <= timeout

\* for i in range(timeout): a turn is left after n turns
PollsLeft(n, timeout) == n < timeout

\* the operation returns path to its caller
Returned(path) == [wait EXCEPT !.pc = "returned", !.result = path]

\* sys.exit(arg): status 0 for 0, status 1 and the text on stderr for a string
SysExit(status, message) ==
    [wait EXCEPT !.pc = "exited", !.status = status, !.message = message]

\* what get_mount_or_die_trying returns for a mount point: os.path.normpath of it
ReturnedMount(mount_point) ==
    IF wait.entry = "get_mount_or_die_trying"
    THEN Returned(SomePath(os_path_normpath(mount_point)))
    ELSE Returned(SomePath(mount_point))

\* a wait that hands None on to the caller of get_mount_or_die_trying
TimedOut_returns_none == Returned(NoPath)

\* wait_for_op1_mount returns None; get_mount_or_die_trying then exits
TimedOut ==
    IF wait.entry = "get_mount_or_die_trying"
    THEN SysExit("1", "Failed to find mount point of OP-1")
    ELSE Returned(NoPath)

\* an interrupt handled like a failure
Cancelled_as_failure == SysExit("1", "Operation cancelled by user")

\* except KeyboardInterrupt: print(...); sys.exit(0)
Cancelled == SysExit("0", "Operation cancelled by user")

\* get_mount_or_die_trying: if not is_connected(): wait_for_connection()
GetMountOrDieTrying ==
    /\ wait.pc = "start"
    /\ wait' = [wait EXCEPT !.pc = IF is_connected THEN "find" ELSE "connection_poll"]
    /\ UNCHANGED <<platform, cmd, fs, probeVars, mount_proc, drive_types, found, lpc,
                   archiveVars>>

\* wait_for_connection: if is_connected(): return True
ConnectionPoll ==
    /\ wait.pc = "connection_poll"
    /\ wait' = [wait EXCEPT !.pc = IF is_connected THEN "find" ELSE "connection_sleep"]
    /\ UNCHANGED <<platform, cmd, fs, probeVars, mount_proc, drive_types, found, lpc,
                   archiveVars>>

\* wait_for_connection: time.sleep(1)
ConnectionSleep ==
    /\ wait.pc = "connection_sleep"
    /\ wait' = [wait EXCEPT !.pc = "connection_poll"]
    /\ UNCHANGED <<platform, cmd, fs, probeVars, mount_proc, drive_types, found, lpc,
                   archiveVars>>

\* get_mount_or_die_trying: mount_point = find_op1_mount(), returned when found;
\* otherwise wait_for_op1_mount() is entered
FindOnce ==
    /\ wait.pc = "find"
    /\ \E r \in {find_op1_mount.val} :
           wait' = IF r.some
                   THEN [ReturnedMount(r.path) EXCEPT !.finds = @ + 1]
                   ELSE [wait EXCEPT !.pc = "mount_poll", !.timeout = DefaultTimeout,
                                     !.n = 0, !.finds = @ + 1]
    /\ UNCHANGED <<platform, cmd, fs, probeVars, mount_proc, drive_types, found, lpc,
                   archiveVars>>

\* wait_for_op1_mount: one turn of the loop up to the sleep
MountPoll ==
    /\ wait.pc = "mount_poll"
    /\ PollsLeft(wait.n, wait.timeout)
    /\ \E r \in {find_op1_mount.val} :
           wait' = IF r.some
                   THEN [ReturnedMount(r.path) EXCEPT !.n = @ + 1, !.finds = @ + 1]
                   ELSE [wait EXCEPT !.pc = "mount_sleep", !.n = @ + 1, !.finds = @ + 1]
    /\ UNCHANGED <<platform, cmd, fs, probeVars, mount_proc, drive_types, found, lpc,
                   archiveVars>>

\* wait_for_op1_mount: time.sleep(1)
MountSleep ==
    /\ wait.pc = "mount_sleep"
    /\ wait' = [wait EXCEPT !.pc = "mount_poll", !.sleeps = @ + 1]
    /\ UNCHANGED <<platform, cmd, fs, probeVars, mount_proc, drive_types, found, lpc,
                   archiveVars>>

\* wait_for_op1_mount: the loop is over, print("Timed out waiting for mount.")
MountTimeout ==
    /\ wait.pc = "mount_poll"
    /\ ~PollsLeft(wait.n, wait.timeout)
    /\ wait' = TimedOut
    /\ UNCHANGED <<platform, cmd, fs, probeVars, mount_proc, drive_types, found, lpc,
                   archiveVars>>

\* Ctrl-C while wait_for_connection or wait_for_op1_mount is in its try block
KeyboardInterrupt ==
    /\ wait.pc \in {"connection_poll", "connection_sleep", "mount_poll", "mount_sleep"}
    /\ wait' = Cancelled
    /\ UNCHANGED <<platform, cmd, fs, probeVars, mount_proc, drive_types, found, lpc,
                   archiveVars>>

\* the volumes while the device is or is not mounted; a USB stick always is
WaitFs(pf, present) ==
    Mounted(pf, IF present THEN Volume("ok", Op1Tree) ELSE Volume("absent", {}),
            Volume("ok", StickTree))

WaitMountProc(pf, present) ==
    [returncode |-> 0,
     stdout |-> [isnone |-> FALSE,
                 lines |-> IF pf = "Windows" THEN <<>>
                           ELSE <<line_root, line_usb>>
                                \o (IF present THEN <<line_op1>> ELSE <<>>)]]

WaitDrives(pf, present) ==
    IF pf # "Windows" THEN NoDrives
    ELSE [NoDrives EXCEPT !["C"] = "DRIVE_FIXED", !["F"] = "DRIVE_REMOVABLE",
                          !["E"] = IF present THEN "DRIVE_REMOVABLE"
                                   ELSE "DRIVE_NO_ROOT_DIR"]

WaitRunning == wait.pc \notin {"returned", "exited"}

\* the device's disk is mounted or unmounted while the program waits
DeviceMountChanges ==
    /\ WaitRunning
    /\ \E present \in {DeviceMount(platform) \notin DOMAIN fs} :
           /\ fs' = WaitFs(platform, present)
           /\ mount_proc' = WaitMountProc(platform, present)
           /\ drive_types' = WaitDrives(platform, present)
    /\ UNCHANGED <<platform, cmd, probeVars, found, lpc, wait, archiveVars>>

\* the device appears on or disappears from the USB bus
UsbChanges ==
    /\ WaitRunning
    /\ platform # "Windows"
    /\ wait' = [wait EXCEPT !.usb = ~@]
    /\ UNCHANGED <<platform, cmd, fs, probeVars, mount_proc, drive_types, found, lpc,
                   archiveVars>>

\* the longest timeout wait_for_op1_mount is called with directly
MaxTimeout == 3

\* a command calls get_mount_or_die_trying(), or a caller wait_for_op1_mount(t)
InitWait ==
    /\ platform \in Platforms
    /\ cmd = NoCommand
    /\ \E present \in BOOLEAN :
           /\ fs = WaitFs(platform, present)
           /\ mount_proc = WaitMountProc(platform, present)
           /\ drive_types = WaitDrives(platform, present)
    /\ found = Ok(NoPath)
    /\ lpc = "idle"
    /\ \E usb \in (IF platform = "Windows" THEN {FALSE} ELSE BOOLEAN) :
           \/ wait = [NotWaiting EXCEPT !.entry = "get_mount_or_die_trying",
                                        !.pc = "start", !.usb = usb]
           \/ \E t \in 0..MaxTimeout :
                  wait = [NotWaiting EXCEPT !.entry = "wait_for_op1_mount",
                                            !.pc = "mount_poll", !.timeout = t,
                                            !.usb = usb]
    /\ probe = <<>>
    /\ fp_result = Unset
    /\ IdleArchive

NextWait ==
    \/ GetMountOrDieTrying
    \/ ConnectionPoll
    \/ ConnectionSleep
    \/ FindOnce
    \/ MountPoll
    \/ MountSleep
    \/ MountTimeout
    \/ KeyboardInterrupt
    \/ DeviceMountChanges
    \/ UsbChanges

SpecWait == InitWait /\ [][NextWait]_vars

(***************************************************************************)
(* C14: the polls of wait_for_op1_mount                                    *)
(***************************************************************************)
\* C14: wait_for_op1_mount(timeout) calls find_op1_mount at most timeout
\* times; a poll that finds the device returns its path at once, with no
\* poll or sleep after it; None is returned only after exactly timeout polls
\* that all failed
C14_PollsUpToTimeout ==
    /\ [](wait.n <= wait.timeout)
    /\ []((wait.pc = "returned" /\ wait.result.some /\ wait.n > 0) =>
              wait.sleeps = wait.n - 1)
    /\ []((wait.pc = "returned" /\ ~wait.result.some) =>
              wait.n = wait.timeout /\ wait.sleeps = wait.timeout)
    /\ [][(wait.pc = "mount_poll" /\ wait'.n = wait.n + 1) =>
              IF find_op1_mount.val.some
              THEN /\ wait'.pc = "returned"
                   /\ wait'.result.some
                   /\ wait.entry = "wait_for_op1_mount" =>
                          wait'.result = find_op1_mount.val
              ELSE wait'.pc = "mount_sleep"]_vars
    /\ [][wait.pc # "returned"]_vars

\* wait_for_op1_mount(3) found the device on its third poll
C14_Witness ==
    /\ wait.entry = "wait_for_op1_mount"
    /\ wait.pc = "returned"
    /\ wait.result.some
    /\ wait.timeout = 3
    /\ wait.n = 3
    /\ wait.sleeps = 2

(***************************************************************************)
(* C15: get_mount_or_die_trying                                            *)
(***************************************************************************)
Ensuring == wait.entry = "get_mount_or_die_trying"

\* C15: get_mount_or_die_trying never returns None. While is_connected() is
\* false it goes on polling for the connection and does not look for the
\* mount; once connected it calls find_op1_mount once and then at most 15
\* more times; it returns only a path that passed the fingerprint test in
\* the call just made; when all 16 calls fail it exits with status 1 and the
\* message that the mount point was not found
C15_MountOrFatal ==
    /\ []((Ensuring /\ wait.pc = "returned") => wait.result.some)
    /\ [](Ensuring => wait.finds <= 1 + 15)
    /\ []((Ensuring /\ wait.pc = "exited" /\ wait.status # "0") =>
              /\ wait.status = "1"
              /\ wait.message = "Failed to find mount point of OP-1"
              /\ wait.finds = 1 + 15)
    /\ [][(Ensuring /\ wait.pc \in {"start", "connection_poll"}
              /\ wait'.pc # wait.pc /\ ~is_connected) =>
              /\ wait'.pc \in {"connection_poll", "connection_sleep", "exited"}
              /\ wait'.finds = 0]_vars
    /\ [][(Ensuring /\ wait.pc = "connection_sleep" /\ wait'.pc # wait.pc) =>
              wait'.pc \in {"connection_poll", "exited"}]_vars
    /\ [][(Ensuring /\ wait'.pc = "returned") =>
              /\ wait'.finds = wait.finds + 1
              /\ wait'.result.some
              /\ is_op1_drive(wait'.result.path).val]_vars

\* the device was connected but its disk never mounted: all 16 calls failed
C15_Witness ==
    /\ Ensuring
    /\ wait.pc = "exited"
    /\ wait.status = "1"
    /\ wait.finds = 16
    /\ wait.n = 15

(***************************************************************************)
(* C16: Ctrl-C during a wait                                               *)
(***************************************************************************)
InWaitLoop ==
    wait.pc \in {"connection_poll", "connection_sleep", "mount_poll", "mount_sleep"}

\* C16: a KeyboardInterrupt can arrive in every turn of the connection wait
\* and of the mount wait; it ends the wait at once, with no further poll or
\* sleep, and ends the program with exit status 0. Not finding the device
\* shows differently: wait_for_op1_mount returns None without exiting, and
\* get_mount_or_die_trying exits with status 1
C16_InterruptIsNeutral ==
    /\ [](InWaitLoop => ENABLED KeyboardInterrupt)
    /\ [][KeyboardInterrupt =>
              /\ wait'.pc = "exited"
              /\ wait'.status = "0"
              /\ wait'.message = "Operation cancelled by user"
              /\ wait'.n = wait.n
              /\ wait'.finds = wait.finds
              /\ wait'.sleeps = wait.sleeps
              /\ wait'.result = wait.result]_vars
    /\ [][wait.pc # "exited"]_vars
    /\ [][MountTimeout => wait'.status # "0"]_vars
    /\ []((wait.pc = "returned" /\ ~wait.result.some) => wait.status = "none")
    /\ [](wait.status = "0" => wait.pc = "exited" /\ ~wait.result.some)

\* the program was interrupted in the eighth turn of the mount wait
C16_Witness ==
    /\ Ensuring
    /\ wait.pc = "exited"
    /\ wait.status = "0"
    /\ wait.n = 7
    /\ wait.sleeps = 7

(***************************************************************************)
(* helpers/backups.py: generate_archive                                    *)
(***************************************************************************)
\* the content of the regular file at p
FileData(p) ==
    LET at == Locate(p)
    IN  (CHOOSE e \in fs[at.mount].tree : e.path = at.rel).data

\* an archive member, named as TarFile.gettarinfo names it:
\* arcname.replace(os.sep, "/").lstrip("/")
TarInfo(name, arcname) ==
    [name |-> str_lstrip(str_replace(arcname, os_sep, "/"), "/"),
     type |-> IF os_path_isdir(name) THEN "dir" ELSE "file",
     data |-> IF os_path_isdir(name) THEN <<>> ELSE FileData(name)]

\* TarFile.add(name, arcname, recursive): the members one call appends.
\* A directory added recursively brings every entry below it, in the order
\* of its listing
RECURSIVE TarAdd(_, _, _)
TarAdd(name, arcname, recursive) ==
    IF os_path_isdir(name) /\ recursive
    THEN LET below == SetToSeq(os_listdir(name).val)
         IN  <<TarInfo(name, arcname)>>
             \o Flatten([i \in 1..Len(below) |->
                            TarAdd(os_path_join(name, below[i]),
                                   os_path_join(arcname, below[i]), TRUE)])
    ELSE <<TarInfo(name, arcname)>>

\* os.walk(top): one (root, dirs, files) per directory, top down; a
\* directory that cannot be listed is skipped
RECURSIVE os_walk(_)
os_walk(top) ==
    LET ls == os_listdir(top)
    IN  IF ls.exc # "none" THEN <<>>
        ELSE LET names == SetToSeq(ls.val)
                 dirs == SelectSeq(names, LAMBDA n : os_path_isdir(os_path_join(top, n)))
                 files == SelectSeq(names, LAMBDA n : ~os_path_isdir(os_path_join(top, n)))
             IN  <<[root |-> top, dirs |-> dirs, files |-> files]>>
                 \o Flatten([i \in 1..Len(dirs) |-> os_walk(os_path_join(top, dirs[i]))])

\* sum([len(files) + len(dirs) for _, dirs, files in os.walk(mount)])
RECURSIVE SumItems(_)
SumItems(walk) ==
    IF walk = <<>> THEN 0
    ELSE Len(Head(walk).files) + Len(Head(walk).dirs) + SumItems(Tail(walk))

\* the archive name taken from the full path, not made relative to the mount
ArchiveName_not_relative(full_path, mount) == os_path_normpath(full_path)

\* archive_name = os.path.normpath(os.path.relpath(full_path, mount))
ArchiveName(full_path, mount) ==
    os_path_normpath(os_path_relpath(full_path, mount))

\* the tar.add calls of one os.walk step: for name in files + dirs
WalkStepAdds(mount, step) ==
    LET names == SelectSeq(step.files \o step.dirs, LAMBDA n : n[1] # ".")
    IN  [i \in 1..Len(names) |->
            LET full_path == os_path_join(step.root, names[i])
            IN  TarAdd(full_path, ArchiveName(full_path, mount), TRUE)]

\* the tar.add calls made for one child of the mount root
ChildAdds(mount, child) ==
    IF child[1] = "." THEN <<>>
    ELSE LET child_path == os_path_join(mount, child)
             archive_child == os_path_normpath(child)
             walk == IF os_path_isdir(child_path) THEN os_walk(child_path) ELSE <<>>
         IN  <<TarAdd(child_path, archive_child, FALSE)>>
             \o Flatten([i \in 1..Len(walk) |-> WalkStepAdds(mount, walk[i])])

\* generate_archive(mount): the tar.add calls in order, each with the
\* members it appended; pbar.update(1) follows each call
generate_archive(mount_arg) ==
    LET mount == os_path_normpath(mount_arg)
        total_items == SumItems(os_walk(mount))
        children == SetToSeq(os_listdir(mount).val)
        adds == Flatten([i \in 1..Len(children) |-> ChildAdds(mount, children[i])])
    IN  [members |-> Flatten(adds), total |-> total_items, n |-> Len(adds)]

(***************************************************************************)
(* commands/verify.py: verify_backup_structure                             *)
(***************************************************************************)
\* tarfile.open(archive_path, 'r:xz') and tar.getmembers()
TarOpen ==
    IF archive.state = "absent" THEN Raise("FileNotFoundError")
    ELSE IF archive.state = "corrupt" THEN Raise("ReadError")
    ELSE Ok(archive.members)

\* a required set that forgets drum
required_dirs_without_drum == {tape, album, synth}

required_dirs == {tape, album, synth, drum}

\* the set difference taken the wrong way round: found_dirs - required_dirs
StructureIssues_swapped(mlist) ==
    LET found_dirs == {str_split(mlist[i].name, "/")[1] : i \in 1..Len(mlist)}
        missing_dirs == found_dirs \ required_dirs
    IN  IF missing_dirs # {}
        THEN <<[kind |-> "Missing required directories", dirs |-> missing_dirs]>>
        ELSE <<>>

StructureIssues(mlist) ==
    LET found_dirs == {str_split(mlist[i].name, "/")[1] : i \in 1..Len(mlist)}
        missing_dirs == required_dirs \ found_dirs
        present == SetToSeq(required_dirs \ missing_dirs)
        empty == SelectSeq(present,
                           LAMBDA d : ~\E i \in 1..Len(mlist) :
                                           str_startswith(mlist[i].name, d))
    IN  (IF missing_dirs # {}
         THEN <<[kind |-> "Missing required directories", dirs |-> missing_dirs]>>
         ELSE <<>>)
        \o [i \in 1..Len(empty) |-> [kind |-> "Directory is empty", dirs |-> {empty[i]}]]

\* verify_backup_structure without its except clause
verify_backup_structure_unguarded ==
    LET opened == TarOpen
    IN  IF opened.exc # "none"
        THEN [raised |-> TRUE, valid |-> FALSE, issues |-> <<>>]
        ELSE [raised |-> FALSE, valid |-> Len(StructureIssues(opened.val)) = 0,
              issues |-> StructureIssues(opened.val)]

verify_backup_structure ==
    LET opened == TarOpen
    IN  IF opened.exc # "none"
        THEN [raised |-> FALSE, valid |-> FALSE,
              issues |-> <<[kind |-> "Error reading backup archive", dirs |-> {}]>>]
        ELSE LET issues == StructureIssues(opened.val)
             IN  [raised |-> FALSE, valid |-> Len(issues) = 0, issues |-> issues]

(***************************************************************************)
(* helpers/backups.py: restore_archive                                     *)
(***************************************************************************)
(***************************************************************************)
(* int((i + 1) / total_members * 100) in IEEE 754 double arithmetic.       *)
(* A double is [bits, scale]: the integer whose binary digits are bits,    *)
(* least significant first, times 2^-scale.                                *)
(***************************************************************************)
\* the width of a double's significand
Precision == 53

\* the binary digits of c * bits + carry, least significant first
RECURSIVE MulAdd(_, _, _)
MulAdd(bits, c, carry) ==
    IF bits = <<>>
    THEN (IF carry = 0 THEN <<>> ELSE <<carry % 2>> \o MulAdd(<<>>, c, carry \div 2))
    ELSE LET acc == c * Head(bits) + carry
         IN  <<acc % 2>> \o MulAdd(Tail(bits), c, acc \div 2)

\* the first count binary digits of r / n after the point, most significant first
RECURSIVE FracBits(_, _, _)
FracBits(r, n, count) ==
    IF count = 0 THEN <<>>
    ELSE IF 2 * r >= n THEN <<1>> \o FracBits(2 * r - n, n, count - 1)
    ELSE <<0>> \o FracBits(2 * r, n, count - 1)

\* what is left of r / n after those digits
RECURSIVE FracRem(_, _, _)
FracRem(r, n, count) ==
    IF count = 0 THEN r
    ELSE IF 2 * r >= n THEN FracRem(2 * r - n, n, count - 1)
    ELSE FracRem(2 * r, n, count - 1)

Reverse(s) == [i \in 1..Len(s) |-> s[Len(s) + 1 - i]]

\* round-half-to-even of kept, given the first dropped digit and the rest
RoundEven(kept, guard, sticky) ==
    IF guard = 1 /\ (sticky \/ kept[1] = 1) THEN MulAdd(kept, 1, 1) ELSE kept

\* the leading zero digits of k / n after the point, for 0 < k < n
RECURSIVE LeadingZeros(_, _)
LeadingZeros(k, n) == IF 2 * k >= n THEN 0 ELSE 1 + LeadingZeros(2 * k, n)

RECURSIVE Pow2(_)
Pow2(e) == IF e = 0 THEN 1 ELSE 2 * Pow2(e - 1)

\* k / n for 0 < k <= n, rounded to the nearest double
TrueDiv(k, n) ==
    IF k = n THEN [bits |-> <<1>>, scale |-> 0]
    ELSE LET z == LeadingZeros(k, n)
             r == k * Pow2(z)
             digits == FracBits(r, n, Precision + 1)
             kept == Reverse(SubSeq(digits, 1, Precision))
         IN  [bits |-> RoundEven(kept, digits[Precision + 1],
                                 FracRem(r, n, Precision + 1) # 0),
              scale |-> z + Precision]

\* x * c for a small integer c, rounded to the nearest double
FloatMul(x, c) ==
    LET exact == MulAdd(x.bits, c, 0)
        d == Len(exact) - Precision
    IN  IF d <= 0 THEN [bits |-> exact, scale |-> x.scale]
        ELSE [bits |-> RoundEven(SubSeq(exact, d + 1, Len(exact)), exact[d],
                                 \E i \in 1..(d - 1) : exact[i] = 1),
              scale |-> x.scale - d]

RECURSIVE BitsToInt(_)
BitsToInt(bits) == IF bits = <<>> THEN 0 ELSE Head(bits) + 2 * BitsToInt(Tail(bits))

\* int(x) for a double x >= 0
FloatToInt(x) ==
    IF x.scale <= 0 THEN BitsToInt(x.bits) * Pow2(0 - x.scale)
    ELSE IF x.scale >= Len(x.bits) THEN 0
    ELSE BitsToInt(SubSeq(x.bits, x.scale + 1, Len(x.bits)))

\* the percentage rounded to the nearest integer, halves upwards
ProgressValue_nearest(k, total) == (200 * k + total) \div (2 * total)

\* the percentage rounded up instead of truncated
ProgressValue_rounded_up(k, total) == (k * 100 + total - 1) \div total

\* int((i + 1) / total_members * 100), with k = i + 1
ProgressValue(k, total) == FloatToInt(FloatMul(TrueDiv(k, total), 100))

\* a volume tree after the entry at rel is written, missing parents made
WithEntry(tree, rel, kind, data) ==
    LET parents == {Dir(SubSeq(rel, 1, k)) : k \in 1..(Len(rel) - 1)}
        absent == {d \in parents : ~\E e \in tree : e.path = d.path}
    IN  {e \in tree : e.path # rel} \cup absent
        \cup {[path |-> rel, kind |-> kind, data |-> data]}

KindAt(tree, rel) ==
    IF \E e \in tree : e.path = rel
    THEN (CHOOSE e \in tree : e.path = rel).kind
    ELSE "none"

\* TarFile.extract(member, path): the error it raises, and the volumes after
TarExtract(member, path) ==
    LET targetpath == os_path_join(path, member.name)
        at == Locate(targetpath)
        tree == fs[at.mount].tree
        blocked == \E k \in 1..(Len(at.rel) - 1) :
                       KindAt(tree, SubSeq(at.rel, 1, k)) = "file"
        exc == IF ~at.ok THEN "FileNotFoundError"
               ELSE IF fs[at.mount].access # "ok" THEN "PermissionError"
               ELSE IF at.rel = <<>>
                    THEN (IF member.type = "dir" THEN "none" ELSE "IsADirectoryError")
               ELSE IF blocked THEN "NotADirectoryError"
               ELSE IF member.type = "dir" /\ KindAt(tree, at.rel) = "file"
                    THEN "FileExistsError"
               ELSE IF member.type = "file" /\ KindAt(tree, at.rel) = "dir"
                    THEN "IsADirectoryError"
               ELSE "none"
    IN  [exc |-> exc,
         fs |-> IF exc # "none" \/ at.rel = <<>> THEN fs
                ELSE IF member.type = "dir" /\ KindAt(tree, at.rel) = "dir" THEN fs
                ELSE [fs EXCEPT ![at.mount].tree =
                          WithEntry(tree, at.rel, member.type, member.data)]]

\* the default extraction filter of the interpreter that runs the program:
\* fully_trusted before Python 3.14, data from Python 3.14 on
ExtractionFilters == {"fully_trusted", "data"}

\* tarfile.data_filter on the name: leading separators are dropped
RECURSIVE DataFilterName(_)
DataFilterName(name) ==
    IF name # <<>> /\ name[1] \in {"/", os_sep} THEN DataFilterName(Tail(name))
    ELSE name

\* tarfile.data_filter: a name that is still absolute, or whose target lies
\* outside the destination, is refused with a FilterError
DataFiltered(member, path) ==
    IF IsPrefix(AbsComps(path), AbsComps(os_path_join(path, member.name)))
    THEN TarExtract(member, path)
    ELSE [exc |-> "FilterError", fs |-> fs]

\* tar.extract(member, path=mount), no filter argument given
TarExtractFiltered(member, path, tar_filter) ==
    IF tar_filter = "data"
    THEN DataFiltered([member EXCEPT !.name = DataFilterName(member.name)], path)
    ELSE TarExtract(member, path)

(***************************************************************************)
(* The inputs of backup, verification and restore                          *)
(***************************************************************************)
sub == <<"s", "u", "b">>
deep == <<"d", "e", "e", "p">>
hfile == <<".", "h">>
hdir == <<".", "h", "d">>
trash == <<".", "t", "r", "a", "s", "h">>
patch == <<"p">>
gfile == <<"g">>
vfile == <<"v">>
zfile == <<"z">>

\* each feature is a group of entries a device tree may hold beside the
\* required directories
TreeFeatures ==
    {{Dir(<<trash>>), File(<<trash, gfile>>, data_a)},
     {File(<<tape, hfile>>, data_a)},
     {Dir(<<tape, sub>>), File(<<tape, sub, gfile>>, data_b)},
     {Dir(<<tape, sub>>), File(<<tape, sub, hfile>>, data_a)},
     {Dir(<<tape, hdir>>), File(<<tape, hdir, vfile>>, data_a)},
     {File(<<yfile>>, data_b)},
     {Dir(<<tape, sub>>), Dir(<<tape, sub, deep>>),
      File(<<tape, sub, deep, zfile>>, data_a)}}

\* how many features one device tree combines
MaxFeatures == 2

\* how many required directories may be absent or empty in one device tree
MaxIrregular == 1

RequiredPart(kinds) ==
    {Dir(<<n>>) : n \in {m \in OP1_BASE_DIRS : kinds[m] # "absent"}}
    \cup {File(<<n, patch>>, data_a) : n \in {m \in OP1_BASE_DIRS : kinds[m] = "filled"}}

\* the device trees with at most i irregular required directories and at
\* most f features
TreesWith(i, f) ==
    {t \in {RequiredPart(kinds) \cup UNION fsel :
                kinds \in {k \in [OP1_BASE_DIRS -> {"absent", "empty", "filled"}] :
                              Cardinality({n \in OP1_BASE_DIRS : k[n] # "filled"}) <= i},
                fsel \in {g \in SUBSET TreeFeatures : Cardinality(g) <= f}} :
        PrefixClosed(t)}

DeviceTrees == TreesWith(MaxIrregular, MaxFeatures)

HostTree(pf) == IF pf = "Windows" THEN {} ELSE {Dir(<<<<"V">>>>)}

\* the device is mounted and no archive has been written yet
Init ==
    /\ platform \in Platforms
    /\ cmd = NoCommand
    /\ \E src \in DeviceTrees :
           fs = [m \in {DeviceMount(platform), HostMount(platform)} |->
                    IF m = DeviceMount(platform) THEN Volume("ok", src)
                    ELSE Volume("ok", HostTree(platform))]
    /\ probe = <<>>
    /\ fp_result = Unset
    /\ IdleLocate
    /\ IdleArchive

\* the backup command: generate_archive(mount) on the device
GenerateArchive ==
    /\ archive.state = "absent"
    /\ rpc = "idle"
    /\ \E made \in {generate_archive(DeviceMount(platform))} :
           /\ archive' = [state |-> "ok", members |-> made.members]
           /\ pbar' = [total |-> made.total, n |-> made.n]
    /\ UNCHANGED <<platform, cmd, fs, probeVars, locateVars, verify_result, members,
                   ridx, progress, rpc>>

\* the archive file is damaged on disk
DamageArchive ==
    /\ archive.state = "ok"
    /\ rpc = "idle"
    /\ archive' = [archive EXCEPT !.state = "corrupt"]
    /\ UNCHANGED <<platform, cmd, fs, probeVars, locateVars, verify_result, members,
                   ridx, progress, rpc, pbar>>

\* the verify command: verify_backup_structure(archive_path)
VerifyBackupStructure ==
    /\ rpc = "idle"
    /\ \E r \in {verify_backup_structure} :
           verify_result' = [examined |-> archive.state, raised |-> r.raised,
                             valid |-> r.valid, issues |-> r.issues]
    /\ verify_result' # verify_result
    /\ UNCHANGED <<platform, cmd, fs, probeVars, locateVars, archive, members, ridx,
                   progress, rpc, pbar>>

\* restore_archive(archive_path, mount_arg, progress_callback) up to the loop
RestoreBeginOn(mount_arg) ==
    /\ rpc = "idle"
    /\ LET mount == os_path_normpath(mount_arg)
       IN  IF archive.state = "absent"
           THEN /\ rpc' = "FileNotFoundError"
                /\ UNCHANGED members
           ELSE IF ~is_valid_mount(mount)
           THEN /\ rpc' = "ValueError"
                /\ UNCHANGED members
           ELSE IF TarOpen.exc # "none"
           THEN /\ rpc' = "RuntimeError"
                /\ UNCHANGED members
           ELSE /\ rpc' = "extracting"
                /\ members' = TarOpen.val
    /\ ridx' = 0
    /\ progress' = <<>>
    /\ UNCHANGED <<platform, cmd, fs, probeVars, locateVars, archive, verify_result, pbar>>

\* a restore onto the second volume
RestoreBegin == RestoreBeginOn(OtherMount(platform))

\* a loop that skips a member whose extraction fails and goes on
RestoreStep_skips_failed ==
    /\ rpc = "extracting"
    /\ ridx < Len(members)
    /\ \E io_error \in BOOLEAN :
           LET member == [members[ridx + 1] EXCEPT
                              !.name = os_path_normpath(members[ridx + 1].name)]
               out == TarExtract(member, os_path_normpath(OtherMount(platform)))
           IN  /\ fs' = IF io_error \/ out.exc # "none" THEN fs ELSE out.fs
               /\ ridx' = ridx + 1
               /\ progress' = Append(progress, ProgressValue(ridx + 1, Len(members)))
               /\ UNCHANGED rpc
    /\ UNCHANGED <<platform, cmd, probeVars, locateVars, archive, verify_result, members, pbar>>

\* one turn of the loop: normalise the name, extract, report progress
RestoreStepOn(mount_arg) ==
    /\ rpc = "extracting"
    /\ ridx < Len(members)
    /\ \E io_error \in BOOLEAN, tar_filter \in ExtractionFilters :
           LET member == [members[ridx + 1] EXCEPT
                              !.name = os_path_normpath(members[ridx + 1].name)]
               out == TarExtractFiltered(member, os_path_normpath(mount_arg),
                                         tar_filter)
           IN  IF io_error \/ out.exc # "none"
               THEN /\ rpc' = "RuntimeError"
                    /\ UNCHANGED <<fs, ridx, progress>>
               ELSE /\ fs' = out.fs
                    /\ ridx' = ridx + 1
                    /\ progress' = Append(progress, ProgressValue(ridx + 1, Len(members)))
                    /\ UNCHANGED rpc
    /\ UNCHANGED <<platform, cmd, probeVars, locateVars, archive, verify_result, members, pbar>>

RestoreStep == RestoreStepOn(OtherMount(platform))

\* the loop is over: print("Restore completed successfully.")
RestoreEnd ==
    /\ rpc = "extracting"
    /\ ridx = Len(members)
    /\ rpc' = "done"
    /\ UNCHANGED <<platform, cmd, fs, probeVars, locateVars, archive, verify_result,
                   members, ridx, progress, pbar>>

\* the backup and verify commands
Next ==
    \/ GenerateArchive
    \/ DamageArchive
    \/ VerifyBackupStructure

Spec == Init /\ [][Next]_vars

(***************************************************************************)
(* C4 to C9: what generate_archive stores and what verification answers    *)
(***************************************************************************)
\* the tree of the device the backup reads
SourceTree == fs[DeviceMount(platform)].tree

\* the segments of an archive member's name
Segments(name) == str_split(name, "/")

IsHidden(segments) ==
    \E k \in 1..Len(segments) : segments[k] # <<>> /\ segments[k][1] = "."

MemberNames == {archive.members[i].name : i \in 1..Len(archive.members)}

\* C4: the archive generate_archive produces holds no hidden entry at any
\* depth: no member's path has a segment whose name starts with '.'
C4_NoHiddenMember ==
    archive.state = "ok" => \A n \in MemberNames : ~IsHidden(Segments(n))

\* the mount path as it would prefix a member name: separators normalised,
\* leading separators stripped
MountPrefix ==
    str_lstrip(str_replace(os_path_normpath(DeviceMount(platform)), os_sep, "/"), "/")

\* C5: every member name generate_archive stores is the path of a source
\* entry relative to the mount root: it is not absolute, has no '..' segment,
\* does not begin with the mount path, holds no backslash and no empty
\* segment, and its '/'-separated segments are the entry's path below the mount
C5_RelativeNames ==
    archive.state = "ok" =>
        \A n \in MemberNames :
            /\ n # <<>>
            /\ n[1] # "/"
            /\ \A k \in 1..Len(n) : n[k] # "\\"
            /\ \A k \in 1..Len(Segments(n)) : Segments(n)[k] \notin {<<>>, dotdot}
            /\ ~str_startswith(n, MountPrefix)
            /\ ~(Len(n) >= 2 /\ n[2] = ":")
            /\ \E e \in SourceTree : e.path = Segments(n)

\* a Windows backup stored an entry four levels below the mount root
C5_Witness ==
    /\ archive.state = "ok"
    /\ platform = "Windows"
    /\ \E n \in MemberNames : Len(Segments(n)) = 4

\* every required directory is in the tree and has an entry below it
AllRequiredNonEmpty(tree) ==
    \A d \in OP1_BASE_DIRS :
        /\ Dir(<<d>>) \in tree
        /\ \E e \in tree : Len(e.path) > 1 /\ e.path[1] = d

\* C6: verification of an archive that generate_archive built from a tree
\* holding all 4 required directories, each non-empty, answers valid with an
\* empty issues list
C6_BuiltArchiveIsValid ==
    (verify_result.examined = "ok" /\ AllRequiredNonEmpty(SourceTree)) =>
        /\ ~verify_result.raised
        /\ verify_result.valid
        /\ verify_result.issues = <<>>

\* the archive of a device that also holds a hidden .trash and a top-level
\* file was verified and found valid
C6_Witness ==
    /\ verify_result.examined = "ok"
    /\ AllRequiredNonEmpty(SourceTree)
    /\ verify_result.valid
    /\ Dir(<<trash>>) \in SourceTree
    /\ File(<<yfile>>, data_b) \in SourceTree

\* the required names no member of the archive has as its top-level segment
AbsentRequired == {d \in OP1_BASE_DIRS : \A n \in MemberNames : Segments(n)[1] # d}

\* the required names the issues list names
NamedRequired(issues) ==
    {d \in OP1_BASE_DIRS : \E i \in 1..Len(issues) : d \in issues[i].dirs}

\* C7: verification of an archive in which exactly one required top-level
\* directory is absent answers invalid, and the issues list names exactly
\* that directory and no other required directory
C7_OneMissingIsNamed ==
    (verify_result.examined = "ok" /\ Cardinality(AbsentRequired) = 1) =>
        /\ ~verify_result.valid
        /\ verify_result.issues # <<>>
        /\ NamedRequired(verify_result.issues) = AbsentRequired

\* an archive without synth was verified
C7_Witness ==
    /\ verify_result.examined = "ok"
    /\ AbsentRequired = {synth}
    /\ ~verify_result.valid

\* the required names that are a member of the archive with no member below
EmptyRequired ==
    {d \in OP1_BASE_DIRS :
        /\ d \in MemberNames
        /\ ~\E n \in MemberNames : Len(Segments(n)) > 1 /\ Segments(n)[1] = d}

\* C8: verification flags an empty required directory: when a required name
\* is a top-level entry of the archive with no entry beneath it, the issues
\* list holds an issue for that directory and the answer is invalid
C8_EmptyIsFlagged ==
    (verify_result.examined = "ok" /\ EmptyRequired # {}) =>
        /\ ~verify_result.valid
        /\ EmptyRequired \subseteq NamedRequired(verify_result.issues)

\* C9: verification never raises: an archive that is missing or cannot be
\* read yields invalid with exactly one issue, which describes the error
C9_ErrorIsOneIssue ==
    /\ ~verify_result.raised
    /\ verify_result.examined \in {"absent", "corrupt"} =>
           /\ ~verify_result.valid
           /\ Len(verify_result.issues) = 1
           /\ verify_result.issues[1].kind = "Error reading backup archive"

\* a damaged archive was verified
C9_Witness ==
    /\ verify_result.examined = "corrupt"
    /\ ~verify_result.valid
    /\ Len(verify_result.issues) = 1

(***************************************************************************)
(* C20: the progress bar of generate_archive                               *)
(***************************************************************************)
\* C20: the running count of generate_archive's progress bar never exceeds
\* the precomputed total, and once the archive is written the count equals
\* the total, whatever the device holds, hidden files and directories
\* included
C20_CountReachesTotal ==
    archive.state # "absent" => (pbar.n <= pbar.total /\ pbar.n = pbar.total)

(***************************************************************************)
(* C22: how often generate_archive stores an entry                         *)
(***************************************************************************)
\* C22: generate_archive stores every visible file and directory once: no
\* name occurs twice among the members of the archive, however deep the
\* tree, and the archive has as many members as the progress bar counted
C22_EachEntryOnce ==
    archive.state # "absent" =>
        /\ \A i, j \in 1..Len(archive.members) :
               archive.members[i].name = archive.members[j].name => i = j
        /\ Len(archive.members) = pbar.n

(***************************************************************************)
(* Backup on one device, restore onto another                              *)
(***************************************************************************)
\* how many required directories may be absent or empty in a restored tree
MaxRestoreIrregular == 0

\* what the restore target holds: a blank device, a device in use, or a
\* volume that is no device
TargetTrees ==
    {Op1Tree,
     Op1Tree \cup {File(<<tape, patch>>, data_b), Dir(<<xdir>>)},
     StickTree}

InitRestore ==
    /\ platform \in Platforms
    /\ cmd = NoCommand
    /\ \E src \in TreesWith(MaxRestoreIrregular, MaxFeatures), dst \in TargetTrees :
           fs = [m \in {DeviceMount(platform), OtherMount(platform), HostMount(platform)} |->
                    IF m = DeviceMount(platform) THEN Volume("ok", src)
                    ELSE IF m = OtherMount(platform) THEN Volume("ok", dst)
                    ELSE Volume("ok", HostTree(platform))]
    /\ probe = <<>>
    /\ fp_result = Unset
    /\ IdleLocate
    /\ IdleArchive

NextRestore ==
    \/ GenerateArchive
    \/ DamageArchive
    \/ RestoreBegin
    \/ RestoreStep
    \/ RestoreEnd

SpecRestore == InitRestore /\ [][NextRestore]_vars

(***************************************************************************)
(* C3: backup then restore                                                 *)
(***************************************************************************)
\* the tree of the device the restore writes
RestoredTree == fs[OtherMount(platform)].tree

\* C3: after restore_archive(generate_archive(M), M2), with M free of hidden
\* top-level entries and M2 a valid mount, M2 holds every non-hidden entry of
\* M with its content and holds none of the hidden entries of M
C3_RoundTrip ==
    (rpc = "done" /\ ~\E e \in SourceTree : Len(e.path) = 1 /\ IsHidden(e.path)) =>
        \A e \in SourceTree : e \in RestoredTree <=> ~IsHidden(e.path)

(***************************************************************************)
(* C12: what restore_archive does when a precondition fails                *)
(***************************************************************************)
\* the restore target holds the 4 required names as visible directories
TargetHasFingerprint ==
    /\ fs[OtherMount(platform)].access = "ok"
    /\ \A d \in OP1_BASE_DIRS : Dir(<<d>>) \in RestoredTree

\* C12: restore_archive refuses to run unless its preconditions hold: with
\* no archive at the path it raises FileNotFoundError, with an archive but a
\* mount that fails the fingerprint test it raises ValueError, and in both
\* cases no member is extracted, progress_callback is not called and the
\* volumes stay as they were
C12_RefusesWithoutWriting ==
    /\ [](rpc \in {"FileNotFoundError", "ValueError"} =>
              progress = <<>> /\ ridx = 0 /\ members = <<>>)
    /\ [][RestoreBegin =>
              /\ archive.state = "absent" => rpc' = "FileNotFoundError"
              /\ (archive.state # "absent" /\ ~TargetHasFingerprint) =>
                     rpc' = "ValueError"
              /\ rpc' \in {"FileNotFoundError", "ValueError"} =>
                     (archive.state = "absent" \/ ~TargetHasFingerprint)]_vars
    /\ [][rpc' \in {"FileNotFoundError", "ValueError"} => fs' = fs]_vars

\* an existing archive was refused on a volume that is no device
C12_Witness ==
    /\ rpc = "ValueError"
    /\ archive.state = "ok"
    /\ Len(archive.members) > 0
    /\ RestoredTree = StickTree

(***************************************************************************)
(* C13: a failure in the middle of a restore                               *)
(***************************************************************************)
\* the members 1..n of the archive being restored are on the target
Extracted(n) ==
    \A i \in 1..n :
        \E e \in RestoredTree :
            /\ e.path = Segments(members[i].name)
            /\ e.kind = members[i].type
            /\ e.data = members[i].data

\* C13: when the extraction of member k fails, restore_archive stops at once
\* with one RuntimeError: the members 1..k-1 stay on the device, the step
\* that fails writes nothing and calls progress_callback no more, nothing
\* happens after the failure, and success is reported only when every
\* member was extracted
C13_FailureStopsRestore ==
    /\ []((rpc = "RuntimeError" /\ members # <<>>) =>
              /\ ridx < Len(members)
              /\ Len(progress) = ridx
              /\ Extracted(ridx))
    /\ [](rpc = "done" => Extracted(Len(members)))
    /\ [][(rpc = "extracting" /\ rpc' = "RuntimeError") =>
              fs' = fs /\ ridx' = ridx /\ progress' = progress]_vars
    /\ [][rpc # "RuntimeError"]_vars

\* the third member could not be extracted, the first two are on the device
C13_Witness ==
    /\ rpc = "RuntimeError"
    /\ ridx = 2
    /\ Len(members) > 3
    /\ Extracted(2)
    /\ ~Extracted(3)

(***************************************************************************)
(* Restore of archives with many members                                   *)
(***************************************************************************)
\* the most members an archive holds
MaxMembers == 203

Digits == <<"0", "1", "2", "3", "4", "5", "6", "7", "8", "9">>

\* str(i).zfill(3)
Numeral(i) ==
    <<Digits[((i \div 100) % 10) + 1], Digits[((i \div 10) % 10) + 1],
      Digits[(i % 10) + 1]>>

\* an archive of n members: the required directories, then files in tape
ManyMembers(n) ==
    [i \in 1..n |->
        IF i = 1 THEN [name |-> tape, type |-> "dir", data |-> <<>>]
        ELSE IF i = 2 THEN [name |-> album, type |-> "dir", data |-> <<>>]
        ELSE IF i = 3 THEN [name |-> synth, type |-> "dir", data |-> <<>>]
        ELSE IF i = 4 THEN [name |-> drum, type |-> "dir", data |-> <<>>]
        ELSE [name |-> tape \o <<"/">> \o Numeral(i), type |-> "file", data |-> data_a]]

InitProgress ==
    /\ platform \in Platforms
    /\ cmd = NoCommand
    /\ fs = [m \in {OtherMount(platform), HostMount(platform)} |->
                IF m = OtherMount(platform) THEN Volume("ok", Op1Tree)
                ELSE Volume("ok", HostTree(platform))]
    /\ probe = <<>>
    /\ fp_result = Unset
    /\ IdleLocate
    /\ \E n \in 1..MaxMembers :
           archive = [state |-> "ok", members |-> ManyMembers(n)]
    /\ verify_result = NotVerified
    /\ members = <<>>
    /\ ridx = 0
    /\ progress = <<>>
    /\ rpc = "idle"
    /\ pbar = [total |-> 0, n |-> 0]

NextProgress ==
    \/ RestoreBegin
    \/ RestoreStep
    \/ RestoreEnd

SpecProgress == InitProgress /\ [][NextProgress]_vars

(***************************************************************************)
(* C10: the progress restore_archive reports                               *)
(***************************************************************************)
\* C10: within one restore of an archive with at least one member the values
\* given to progress_callback lie in 0..100, never decrease from one call to
\* the next, and are 100 on the call for the last member and on no other call
C10_ProgressMonotone ==
    /\ \A i \in 1..Len(progress) : progress[i] \in 0..100
    /\ \A i \in 1..(Len(progress) - 1) : progress[i] <= progress[i + 1]
    /\ \A i \in 1..Len(progress) : progress[i] = 100 <=> i = Len(members)
    /\ (rpc = "done" /\ Len(members) >= 1) =>
           Cardinality({i \in 1..Len(progress) : progress[i] = 100}) = 1

\* a restore of more than 200 members ran to its end
C10_Witness ==
    /\ rpc = "done"
    /\ Len(members) > 200
    /\ Len(progress) = Len(members)

(***************************************************************************)
(* C11: the value restore_archive reports after each member                *)
(***************************************************************************)
\* round(100 * k / total) of the exact quotient, halves to the even neighbour
RoundedPercent(k, total) ==
    LET q == (100 * k) \div total
        r == (100 * k) % total
    IN  IF 2 * r > total \/ (2 * r = total /\ q % 2 = 1) THEN q + 1 ELSE q

\* C11 as stated: after the k-th of total members restore_archive reports
\* round((k / total) * 100), the percentage rounded to the nearest integer
C11_ReportsRounded ==
    \A k \in 1..Len(progress) : progress[k] = RoundedPercent(k, Len(members))

\* C11 amended: after the k-th of total members restore_archive reports the
\* double (k / total) * 100 truncated towards zero: the whole part of
\* 100 * k / total, never rounded up, or one less than the exact percentage
\* where 100 * k / total is a whole number the double product falls short of
C11_ReportsTruncated ==
    \A k \in 1..Len(progress) :
        /\ progress[k] <= (100 * k) \div Len(members)
        /\ progress[k] >= (100 * k) \div Len(members) - 1
        /\ (100 * k) % Len(members) # 0 => progress[k] = (100 * k) \div Len(members)
        /\ k = Len(members) => progress[k] = 100

\* a restore reported a truncated value where rounding gives the next one,
\* and a value one below an exact percentage
C11_Witness ==
    /\ rpc = "done"
    /\ Len(members) = 50
    /\ progress[29] = 57
    /\ progress[33] = 66
    /\ RoundedPercent(29, 50) = 58

(***************************************************************************)
(* commands/restore.py: the restore command, from the selected backup on   *)
(***************************************************************************)
BackupMember(name, type) ==
    [name |-> name, type |-> type, data |-> IF type = "dir" THEN <<>> ELSE data_a]

\* a backup of a device with one file in each of its folders
CompleteBackup ==
    <<BackupMember(tape, "dir"), BackupMember(tape \o <<"/">> \o patch, "file"),
      BackupMember(album, "dir"), BackupMember(album \o <<"/">> \o patch, "file"),
      BackupMember(synth, "dir"), BackupMember(synth \o <<"/">> \o patch, "file"),
      BackupMember(drum, "dir"), BackupMember(drum \o <<"/">> \o patch, "file")>>

\* the same backup without its drum folder
PartialBackup == SubSeq(CompleteBackup, 1, 6)

\* the file the user chose: sound, incomplete, unreadable, or gone meanwhile
SelectedBackups ==
    {[state |-> "ok", members |-> CompleteBackup],
     [state |-> "ok", members |-> PartialBackup],
     [state |-> "corrupt", members |-> CompleteBackup],
     [state |-> "absent", members |-> <<>>]}

\* click.confirm: y, n, or Ctrl-C, which raises click.Abort
Answers == {"yes", "no", "abort"}

\* the except Exception of cli: the error is shown and sys.exit(1)
CliFails == [cmd EXCEPT !.pc = "exited", !.status = "1"]

\* if not is_valid: the issues are shown and the user is asked
Verified(valid) ==
    [cmd EXCEPT !.verified = IF valid THEN "passed" ELSE "failed",
                !.pc = IF valid THEN "connect" ELSE "confirm_proceed"]

\* a command that restores whatever the user answers
OverwriteAnswered_restores_anyway(answer) ==
    [cmd EXCEPT !.overwrite = answer, !.pc = "restore"]

\* if not click.confirm("This will overwrite all data on your OP-1. Continue?")
OverwriteAnswered(answer) ==
    IF answer = "abort" THEN [CliFails EXCEPT !.overwrite = answer]
    ELSE [cmd EXCEPT !.overwrite = answer,
                     !.pc = IF answer = "yes" THEN "restore" ELSE "returned"]

\* verify_backup_file(selected_backup), then verify_backup_before_restore
CliVerify ==
    /\ cmd.pc = "idle"
    /\ IF archive.state = "absent"
       THEN /\ cmd' = CliFails
            /\ UNCHANGED verify_result
       ELSE \E r \in {verify_backup_structure} :
                /\ cmd' = Verified(r.valid)
                /\ verify_result' = [examined |-> archive.state, raised |-> r.raised,
                                     valid |-> r.valid, issues |-> r.issues]
    /\ UNCHANGED <<platform, fs, probeVars, locateVars, archive, members, ridx,
                   progress, rpc, pbar>>

\* click.confirm("... Do you want to proceed with restoration anyway?")
CliConfirmProceed ==
    /\ cmd.pc = "confirm_proceed"
    /\ \E answer \in Answers :
           cmd' = IF answer = "abort" THEN [CliFails EXCEPT !.proceed = answer]
                  ELSE [cmd EXCEPT !.proceed = answer,
                                   !.pc = IF answer = "yes" THEN "connect"
                                          ELSE "returned"]
    /\ UNCHANGED <<platform, fs, probeVars, locateVars, archiveVars>>

\* mount = op1.get_mount_or_die_trying(): the call is entered
CliConnect ==
    /\ cmd.pc = "connect"
    /\ cmd' = [cmd EXCEPT !.pc = "connecting"]
    /\ wait' = [wait EXCEPT !.entry = "get_mount_or_die_trying", !.pc = "start"]
    /\ UNCHANGED <<platform, fs, probeVars, mount_proc, drive_types, found, lpc,
                   archiveVars>>

\* the call returned the mount, or left the program through sys.exit, which
\* the except Exception of cli does not catch
CliConnected ==
    /\ cmd.pc = "connecting"
    /\ wait.pc \in {"returned", "exited"}
    /\ cmd' = IF wait.pc = "returned"
              THEN [cmd EXCEPT !.pc = "confirm_overwrite", !.mount = wait.result]
              ELSE [cmd EXCEPT !.pc = "exited", !.status = wait.status]
    /\ UNCHANGED <<platform, fs, probeVars, locateVars, archiveVars>>

CliConfirmOverwrite ==
    /\ cmd.pc = "confirm_overwrite"
    /\ \E answer \in Answers : cmd' = OverwriteAnswered(answer)
    /\ UNCHANGED <<platform, fs, probeVars, locateVars, archiveVars>>

\* backups.restore_archive(str(selected_backup), mount, update_progress)
CliRestoreBegin == cmd.pc = "restore" /\ RestoreBeginOn(cmd.mount.path)

CliRestoreStep == cmd.pc = "restore" /\ RestoreStepOn(cmd.mount.path)

CliRestoreEnd == cmd.pc = "restore" /\ RestoreEnd

\* restore_archive returned, or raised and cli exits with status 1
CliFinish ==
    /\ cmd.pc = "restore"
    /\ rpc \notin {"idle", "extracting"}
    /\ cmd' = IF rpc = "done" THEN [cmd EXCEPT !.pc = "done", !.status = "0"]
              ELSE CliFails
    /\ UNCHANGED <<platform, fs, probeVars, locateVars, archiveVars>>

\* a backup has been selected; the device is mounted or not yet
InitCommand ==
    /\ platform \in Platforms
    /\ cmd = NoCommand
    /\ \E present \in BOOLEAN :
           /\ fs = WaitFs(platform, present)
           /\ mount_proc = WaitMountProc(platform, present)
           /\ drive_types = WaitDrives(platform, present)
    /\ found = Ok(NoPath)
    /\ lpc = "idle"
    /\ \E usb \in (IF platform = "Windows" THEN {FALSE} ELSE BOOLEAN) :
           wait = [NotWaiting EXCEPT !.usb = usb]
    /\ probe = <<>>
    /\ fp_result = Unset
    /\ archive \in SelectedBackups
    /\ verify_result = NotVerified
    /\ members = <<>>
    /\ ridx = 0
    /\ progress = <<>>
    /\ rpc = "idle"
    /\ pbar = [total |-> 0, n |-> 0]

NextCommand ==
    \/ CliVerify
    \/ CliConfirmProceed
    \/ CliConnect
    \/ GetMountOrDieTrying
    \/ ConnectionPoll
    \/ ConnectionSleep
    \/ FindOnce
    \/ MountPoll
    \/ MountSleep
    \/ MountTimeout
    \/ KeyboardInterrupt
    \/ DeviceMountChanges
    \/ UsbChanges
    \/ CliConnected
    \/ CliConfirmOverwrite
    \/ CliRestoreBegin
    \/ CliRestoreStep
    \/ CliRestoreEnd
    \/ CliFinish

SpecCommand == InitCommand /\ [][NextCommand]_vars

(***************************************************************************)
(* C19: what the restore command does before it writes                     *)
(***************************************************************************)
\* verification passed, or it failed and the user chose to go on
VerificationSettled ==
    \/ cmd.verified = "passed" /\ cmd.proceed = "unasked"
    \/ cmd.verified = "failed" /\ cmd.proceed = "yes"

\* the device holds what it held when the command started
DeviceUntouched ==
    \A m \in DOMAIN fs : fs[m] = WaitFs(platform, TRUE)[m]

\* C19: the restore command starts extracting only after, in this order, the
\* archive was verified and passed or the user chose to proceed despite the
\* issues, a mount of the device was obtained, and the user confirmed the
\* overwrite; a declined confirmation ends the command and nothing is
\* written to the device
C19_WritesOnlyAfterConsent ==
    /\ []((rpc # "idle" \/ ~DeviceUntouched) =>
              (VerificationSettled /\ cmd.mount.some /\ cmd.overwrite = "yes"))
    /\ [](cmd.overwrite # "unasked" => cmd.mount.some)
    /\ []((cmd.mount.some \/ wait.pc # "idle") => VerificationSettled)
    /\ [](cmd.proceed # "unasked" => cmd.verified = "failed")
    /\ []((cmd.proceed = "no" \/ cmd.overwrite = "no") =>
              (cmd.pc = "returned" /\ rpc = "idle" /\ DeviceUntouched))
    /\ [][cmd.pc = "returned" => (cmd' = cmd /\ rpc' = rpc /\ wait'.pc = wait.pc)]_vars

\* a backup without its drum folder was restored because the user said so twice
C19_Witness ==
    /\ cmd.pc = "done"
    /\ cmd.verified = "failed"
    /\ cmd.proceed = "yes"
    /\ cmd.overwrite = "yes"
    /\ ~DeviceUntouched

(***************************************************************************)
(* Restoring an archive that was not written by generate_archive           *)
(***************************************************************************)
\* stored names: one below the root, two that climb out with "..", and one
\* absolute name for each platform
ForeignNames ==
    {tape \o <<"/">> \o patch,
     <<".", ".", "/", "e">>,
     tape \o <<"/", ".", ".", "/", ".", ".", "/", "e">>,
     <<"/", "V", "/", "O", "P", "/", "e">>,
     <<"E", ":", "/", "e">>}

\* the longest foreign archive
MaxForeign == 2

ForeignArchives ==
    UNION {[1..n -> {BackupMember(name, "file") : name \in ForeignNames}] :
               n \in 1..MaxForeign}

\* a blank device on each of the two volumes
ForeignFs(pf) ==
    [m \in {DeviceMount(pf), OtherMount(pf), HostMount(pf)} |->
        IF m = HostMount(pf) THEN Volume("ok", HostTree(pf))
        ELSE Volume("ok", Op1Tree)]

InitForeign ==
    /\ platform \in Platforms
    /\ cmd = NoCommand
    /\ fs = ForeignFs(platform)
    /\ probe = <<>>
    /\ fp_result = Unset
    /\ IdleLocate
    /\ \E a \in ForeignArchives : archive = [state |-> "ok", members |-> a]
    /\ verify_result = NotVerified
    /\ members = <<>>
    /\ ridx = 0
    /\ progress = <<>>
    /\ rpc = "idle"
    /\ pbar = [total |-> 0, n |-> 0]

NextForeign ==
    \/ RestoreBegin
    \/ RestoreStep
    \/ RestoreEnd

SpecForeign == InitForeign /\ [][NextForeign]_vars

(***************************************************************************)
(* C21: where restore_archive writes                                       *)
(***************************************************************************)
\* C21: restore_archive creates or changes files only under the mount root,
\* also for an archive whose stored names are absolute or contain "..":
\* every other volume stays as it was
C21_WritesOnlyUnderMount ==
    \A m \in DOMAIN fs :
        m # OtherMount(platform) => fs[m] = ForeignFs(platform)[m]

====
